---- MODULE Spec2Model ----
(***************************************************************************)
(* A model of the Harness strapon (extension) loader:                      *)
(*   src/harness/bot.py                 HarnessBot.load_all_strapons,      *)
(*                                      load_extension,                    *)
(*                                      _load_from_module_spec             *)
(*   src/harness/components/strapon.py  StraponMetadata, Strapon.load,     *)
(*                                      Strapon.install_requirements       *)
(*                                                                         *)
(*   src/harness/bot.py                 HarnessBot.setup_bot_logging       *)
(*   src/harness/components/config.py   StraponConfig                      *)
(*                                                                         *)
(* Spec        the batch load of load_all_strapons: one asyncio task per   *)
(*             enabled strapon, interleaved at the awaits.                 *)
(* SpecInstall one call of Strapon.install_requirements: the check of the  *)
(*             requirements, the spawn and the installer's exit code.      *)
(* SpecStreams the installer child, its two pipes, the two log_stream      *)
(*             tasks and the final process.wait().                         *)
(* SpecDirect  two tasks that call load_extension for one extension name.  *)
(* SpecManifest one construction of StraponMetadata, and                   *)
(*             importable_normalise applied to an id and to its result.    *)
(* SpecConfig  one StraponConfig object: load, save and data in any order. *)
(* SpecLogs    runs of setup_bot_logging over a logs directory.            *)
(***************************************************************************)
EXTENDS Integers, Sequences, FiniteSets, TLC

----------------------------------------------------------------------------
(* Bounds of the model. *)

\* the most cogs one setup() hands to Strapon.register_cog
MaxCogs == 2

\* the highest package version the model distinguishes (versions are 1..MaxVersion)
MaxVersion == 2

\* the most requirements of one manifest, and the most installed distributions,
\* in a call of install_requirements taken alone
MaxReqs == 2
MaxDists == 2

\* the most lines the installer child writes, and the lines a pipe holds before
\* a write to it blocks (the pipe's buffer and the StreamReader's, which stops
\* reading the pipe at its limit)
MaxLines == 3
PipeCap == 1

----------------------------------------------------------------------------
(* Names, manifests and the filesystem under data/strapons. *)

\* the sub-directories of data/strapons
Dirs == {"da", "db", "dc"}

\* package_dir.name, as a sequence of characters
BaseName(d) ==
    CASE d = "da" -> <<"a">>
      [] d = "db" -> <<"b">>
      [] OTHER    -> <<"c">>

\* bot_config.data["enabled_strapons"]
Enabled == {<<"a">>, <<"b">>}

\* the load_extension calls: one asyncio task (load_wrapper) per directory
Calls == Dirs

IsSep(ch) == ch \in {"-", "_", "."}

\* str.lower() on the characters the model uses
Lower(ch) ==
    CASE ch = "A" -> "a"
      [] ch = "B" -> "b"
      [] ch = "C" -> "c"
      [] OTHER    -> ch

RECURSIVE DropSeps(_)
DropSeps(s) ==
    IF s # <<>> /\ IsSep(Head(s)) THEN DropSeps(Tail(s)) ELSE s

\* re.sub(r"[-_.]+", "_", name): every maximal run of separators becomes one "_"
RECURSIVE CollapseSeps(_)
CollapseSeps(s) ==
    IF s = <<>> THEN <<>>
    ELSE IF IsSep(Head(s)) THEN <<"_">> \o CollapseSeps(DropSeps(Tail(s)))
    ELSE <<Head(s)>> \o CollapseSeps(Tail(s))

importable_normalise(name) ==
    LET t == CollapseSeps(name) IN [i \in 1..Len(t) |-> Lower(t[i])]

\* What a strapon directory holds: __init__.py, pyproject.toml and, in the
\* latter, project.name and project.id.
ManifestKinds ==
    {"valid", "noInit", "noPyproject", "noName", "noId", "notNormalised", "idMismatch"}

Manifest(d, kind) ==
    [ hasInit      |-> kind # "noInit",
      hasPyproject |-> kind # "noPyproject",
      hasName      |-> kind # "noName",
      hasId        |-> kind # "noId",
      id           |-> CASE kind = "notNormalised" -> <<"A", "-", "-", "b">>
                         [] kind = "idMismatch"    -> <<"z">>
                         [] OTHER                  -> BaseName(d) ]

\* mutant of StraponMetadataInit: the id is not compared with its normal form
StraponMetadataInit_NoNormalCheck(name, m) ==
    IF ~m.hasPyproject THEN "FileNotFoundError"
    ELSE IF ~m.hasName THEN "ValueError"
    ELSE IF ~m.hasId THEN "ValueError"
    ELSE IF m.id # name THEN "ValueError"
    ELSE "ok"

\* StraponMetadata.__init__ for a directory whose package_dir.name is name: the
\* exception it raises, or "ok"
StraponMetadataInit(name, m) ==
    IF ~m.hasPyproject THEN "FileNotFoundError"
    ELSE IF ~m.hasName THEN "ValueError"
    ELSE IF ~m.hasId THEN "ValueError"
    ELSE IF m.id # importable_normalise(m.id) THEN "ValueError"
    ELSE IF m.id # name THEN "ValueError"
    ELSE "ok"

\* StraponMetadata(subdir_path) for a sub-directory of data/strapons
StraponMetadata(d, m) == StraponMetadataInit(BaseName(d), m)

----------------------------------------------------------------------------
(* Requirements and installed distributions. *)

Versions == 1..MaxVersion

Req(n, vs) == [name |-> n, specifier |-> vs]
Dist(n, v) == [name |-> n, version |-> v]

\* StraponMetadata.requirements, from project.dependencies of each manifest
Requirements(d) ==
    CASE d = "da" -> <<>>
      [] d = "db" -> <<Req("p", {2})>>
      [] OTHER    -> <<Req("p", {1, 2})>>

\* importlib.metadata.version(name): the version of the first distribution
\* found under that name
RECURSIVE version(_, _)
version(name, dists) ==
    IF dists = <<>> THEN 0
    ELSE IF Head(dists).name = name THEN Head(dists).version
    ELSE version(name, Tail(dists))

\* mutant of is_unsatisfied: a distribution of the name satisfies, whatever its
\* version
is_unsatisfied_NameOnly(requirement, dists) ==
    ~ \E i \in 1..Len(dists) : requirement.name = dists[i].name

\* install_requirements.is_unsatisfied
is_unsatisfied(requirement, dists) ==
    ~ \E i \in 1..Len(dists) :
        /\ requirement.name = dists[i].name
        /\ version(requirement.name, dists) \in requirement.specifier

\* mutant of missing_requirements: the missing requirements come out in the
\* reverse of their declaration order
RECURSIVE missing_requirements_Reversed(_, _)
missing_requirements_Reversed(reqs, dists) ==
    IF reqs = <<>> THEN <<>>
    ELSE IF is_unsatisfied(Head(reqs), dists)
         THEN missing_requirements_Reversed(Tail(reqs), dists) \o <<Head(reqs)>>
         ELSE missing_requirements_Reversed(Tail(reqs), dists)

\* tuple(filter(is_unsatisfied, self.metadata.requirements))
RECURSIVE missing_requirements(_, _)
missing_requirements(reqs, dists) ==
    IF reqs = <<>> THEN <<>>
    ELSE IF is_unsatisfied(Head(reqs), dists)
         THEN <<Head(reqs)>> \o missing_requirements(Tail(reqs), dists)
         ELSE missing_requirements(Tail(reqs), dists)

\* What a successful installer run leaves behind: a distribution for each
\* missing requirement, either in place of the older ones ("replaced") or in a
\* later path entry behind them ("shadowed").
NewDists(miss) ==
    [i \in 1..Len(miss) |->
        Dist(miss[i].name,
             CHOOSE v \in miss[i].specifier : \A w \in miss[i].specifier : v <= w)]

InstallEffects(reqs, dists) ==
    LET miss  == missing_requirements(reqs, dists)
        names == {miss[i].name : i \in 1..Len(miss)}
        keep(x) == x.name \notin names
    IN  { NewDists(miss) \o SelectSeq(dists, keep), dists \o NewDists(miss) }

----------------------------------------------------------------------------
(* State. *)

VARIABLES
    fs,            \* data/strapons: directory -> manifest
    configFile,    \* data/config/<id>.yml: directory -> content
    installed,     \* importlib.metadata.distributions(), in path order
    batchPC,       \* where load_all_strapons is
    potential,     \* potential_strapons
    failed,        \* failed (the set of load_all_strapons)
    sysModules,    \* sys.modules: key -> module object
    extensions,    \* self._BotBase__extensions: key -> module object
    dispatcher,    \* the cogs registered with the bot (add_cog)
    pc,            \* call -> where the call is
    key,           \* call -> the extension name it loads
    attempt,       \* call -> which _load_from_module_spec call of it is running
    strapon,       \* call -> the Strapon setup() returned (its cogs, its config)
    nextCog,       \* call -> the next of its cogs to add
    err,           \* call -> the error being handled by the except block
    result,        \* call -> how load_extension ended
    installCount,  \* call -> installer subprocesses spawned
    missingSeen,   \* call -> requirement checks that found something missing
    log,           \* call -> the steps of the running attempt, in order
    returnCode,    \* call -> what process.wait() returned in the running attempt, else -1
    errCode,       \* call -> the returncode of the CalledProcessError raised, else -1
    report,        \* <<succeeded, failed>> as logged by load_all_strapons, else <<>>
    \* one call of install_requirements (SpecInstall)
    requirements,  \* self.metadata.requirements
    distributions, \* installed_distributions, the snapshot of line 123
    irPC,          \* where the call is
    cmdArgs,       \* the requirements on the installer's command line
    spawned,       \* installer subprocesses created
    returned,      \* what the call returned or raised
    \* the installer child and its two pipes (SpecStreams)
    script,        \* the writes the child has still to do: <<stream, line>>
    childExit,     \* the child's exit code once it has exited, else -1
    pipe,          \* stream -> the lines written and not yet read
    written,       \* stream -> every line the child has written
    reader,        \* stream -> where its log_stream task is
    sink,          \* stream -> the lines handed to logger.info / logger.error
    procPC,        \* where install_requirements is after the spawn
    \* one construction of StraponMetadata (SpecManifest)
    packageDir,    \* package_dir.name, as a sequence of characters
    pyproject,     \* what the pyproject.toml of the directory holds
    metaPC,        \* where the construction is
    metaId,        \* self.id of the object once it has been assigned
    normalised,    \* the results of importable_normalise applied again and again
    \* one StraponConfig and the file it is used with (SpecConfig)
    cfgSchema,     \* self.schema
    cfgData,       \* self._data: the YAML object held, or None
    cfgFile,       \* the text of the file at config_path, or "absent"
    cfgPC,         \* where the running load or save is
    cfgResult,     \* <<operation, "returned" or "raised", value>> of the last one
    cfgOps,        \* operations finished
    everLoaded,    \* a load has returned
    \* the logs directory over runs of setup_bot_logging (SpecLogs)
    latestLog,     \* the content of logs/latest.log, or "absent"
    logsDir,       \* <<date_str, log_number>> -> the content of that archive, or "absent"
    logRuns,       \* runs of setup_bot_logging so far
    archived       \* the archive paths the runs renamed latest.log to, in order

lifecycleVars ==
    <<fs, configFile, installed, batchPC, potential, failed, sysModules,
      extensions, dispatcher, pc, key, attempt, strapon, nextCog, err, result,
      installCount, missingSeen, log, returnCode, errCode, report>>

installVars == <<requirements, distributions, irPC, cmdArgs, spawned, returned>>

streamVars == <<script, childExit, pipe, written, reader, sink, procPC>>

manifestVars == <<packageDir, pyproject, metaPC, metaId, normalised>>

NoModule == <<>>
NoStrapon == [cogs |-> 0, hasConfig |-> FALSE, built |-> FALSE]
NoResult == "none"

ConfigContents == {"absent", "custom", "invalid"}

\* the module object made by the n-th _load_from_module_spec of call c
Lib(c, n) == <<c, n>>

\* a cog registered by the Strapon of call c, attempt n; its class lives in the
\* module named k, its name is its place among the cogs of that module
Cog(k, i, c, n) == [module |-> k, idx |-> i, call |-> c, attempt |-> n]

----------------------------------------------------------------------------
(* The pieces of the handlers. *)

\* mutant of SeedConfig: the default config is copied over an existing file
SeedConfig_Overwrite(content) == "default"

\* Strapon.load, lines 103-105: the default config is copied only when the
\* target is not a file
SeedConfig(content) == IF content = "absent" THEN "default" ELSE content

\* StraponConfig.load: strictyaml.load raises on content that violates the schema
ConfigLoads(content) == content \in {"default", "custom"}

\* mutants of RemoveCogsOf: the rollback detaches nothing / detaches every cog
RemoveCogsOf_Nothing(k, cogs) == cogs
RemoveCogsOf_Everything(k, cogs) == {}

\* Bot._remove_module_references(lib.__name__): every cog whose class was
\* defined in the module is removed
RemoveCogsOf(k, cogs) == {g \in cogs : g.module # k}

\* the except clause of load_wrapper
WrapperFailed(c, res, fset) ==
    IF res # "ok" THEN fset \cup {c} ELSE fset

\* which exception leaves _load_from_module_spec for an error caught at line 170
Raised(error) ==
    IF error = "RequirementInstallSuccessError" THEN error ELSE "ExtensionFailed"

----------------------------------------------------------------------------
(* The state the lifecycle steps read and write, as one record, so that the *)
(* code between two awaits composes into one step.                          *)

St ==
    [ configFile |-> configFile, installed |-> installed, failed |-> failed,
      sysModules |-> sysModules, extensions |-> extensions,
      dispatcher |-> dispatcher, pc |-> pc, key |-> key, attempt |-> attempt,
      strapon |-> strapon, nextCog |-> nextCog, err |-> err, result |-> result,
      installCount |-> installCount, missingSeen |-> missingSeen, log |-> log,
      returnCode |-> returnCode, errCode |-> errCode ]

Set(s) ==
    /\ configFile' = s.configFile
    /\ installed' = s.installed
    /\ failed' = s.failed
    /\ sysModules' = s.sysModules
    /\ extensions' = s.extensions
    /\ dispatcher' = s.dispatcher
    /\ pc' = s.pc
    /\ key' = s.key
    /\ attempt' = s.attempt
    /\ strapon' = s.strapon
    /\ nextCog' = s.nextCog
    /\ err' = s.err
    /\ result' = s.result
    /\ installCount' = s.installCount
    /\ missingSeen' = s.missingSeen
    /\ log' = s.log
    /\ returnCode' = s.returnCode
    /\ errCode' = s.errCode

Logged(s, c, event) == [s EXCEPT !.log[c] = Append(@, event)]

\* load_extension returns or raises; in the batch, load_wrapper records a raise
\* (a Strapon that failed to load is dropped with the frame of the call)
Finish(s, c, res) ==
    [s EXCEPT !.pc[c] = "done",
              !.result[c] = res,
              !.strapon[c] = IF res = "ok" THEN @ ELSE NoStrapon,
              !.log[c] = <<>>,
              !.failed = WrapperFailed(c, res, @)]

\* bot.py:170-171, the except block up to its first await: del sys.modules[key]
\* (a KeyError when the entry is gone leaves the block at once)
Catch(s, c, error) ==
    LET k == s.key[c] IN
    IF s.sysModules[k] = NoModule
    THEN Finish([s EXCEPT !.err[c] = "KeyError"], c, "KeyError")
    ELSE [s EXCEPT !.sysModules[k] = NoModule,
                   !.err[c] = error,
                   !.pc[c] = "remove_refs"]

\* bot.py:177-180, the else block: the extension table gets the module
Register(s, c) ==
    LET k == s.key[c] IN
    Finish([s EXCEPT !.extensions[k] = Lib(c, s.attempt[c])], c, "ok")

\* strapon.py:116-117, up to the first await of add_cog
AddCogs(s, c) ==
    IF s.strapon[c].cogs = 0 THEN Register(s, c)
    ELSE [s EXCEPT !.pc[c] = "add_cog", !.nextCog[c] = 1]

\* strapon.py:112 and 122-149: the check of the requirements and, when some are
\* missing, the spawn of the installer
InstallRequirements(s, c) ==
    LET k == s.key[c] IN
    IF missing_requirements(Requirements(k), s.installed) = <<>>
    THEN AddCogs(Logged(s, c, "deps"), c)
    ELSE [Logged(s, c, "spawn") EXCEPT
              !.missingSeen[c] = @ + 1,
              !.installCount[c] = @ + 1, !.pc[c] = "installing"]

\* mutant of StraponLoad: the requirements are handled before the config
StraponLoad_DepsFirst(s, c) == InstallRequirements(s, c)

\* strapon.py:97-107: Strapon.load up to the await of config.load
StraponLoad(s, c) ==
    LET k == s.key[c] IN
    IF s.strapon[c].hasConfig
    THEN [s EXCEPT !.configFile[k] = SeedConfig(@), !.pc[c] = "config_load"]
    ELSE InstallRequirements(Logged(s, c, "config"), c)

ExecOutcomes == {"ok", "ExecError", "NoSetup", "NotCoroutine"}

\* bot.py:148-166: _load_from_module_spec up to the await of setup_func
LoadFromModuleSpec(s, c, n, oc) ==
    LET k  == s.key[c]
        s1 == [s EXCEPT !.attempt[c] = n, !.strapon[c] = NoStrapon,
                        !.nextCog[c] = 0, !.err[c] = "none",
                        !.log[c] = <<"exec">>,
                        !.returnCode[c] = -1, !.errCode[c] = -1]
    IN  IF oc = "ok"
        THEN [s1 EXCEPT !.sysModules[k] = Lib(c, n), !.pc[c] = "setup"]
        ELSE Finish([s1 EXCEPT !.sysModules[k] = NoModule, !.err[c] = oc], c,
                    IF oc = "NoSetup" THEN "NoEntryPointError" ELSE "ExtensionFailed")

\* mutant of LoadExtension: the extension table is not consulted
LoadExtension_NoCheck(s, c, oc) ==
    LET k == s.key[c] IN
    IF ~fs[k].hasInit THEN Finish(s, c, "ExtensionNotFound")
    ELSE LoadFromModuleSpec(s, c, 1, oc)

\* bot.py:125-136: load_extension up to the first await
LoadExtension(s, c, oc) ==
    LET k == s.key[c] IN
    IF s.extensions[k] # NoModule THEN Finish(s, c, "ExtensionAlreadyLoaded")
    ELSE IF ~fs[k].hasInit THEN Finish(s, c, "ExtensionNotFound")
    ELSE LoadFromModuleSpec(s, c, 1, oc)

\* mutants of RetryCaught: every reload signal is retried / none is
RetryCaught_Always(n) == TRUE
RetryCaught_Never(n) == FALSE

\* bot.py:135-139: only the first _load_from_module_spec runs inside the try
\* that catches RequirementInstallSuccessError
RetryCaught(n) == n = 1

\* what setup() can do: raise, return something that is no Strapon, or return a
\* Strapon with some cogs registered and with or without a config
SetupOutcomes ==
    {[kind |-> x, cogs |-> 0, hasConfig |-> FALSE] : x \in {"raise", "notStrapon"}}
    \cup [kind : {"strapon"}, cogs : 0..MaxCogs, hasConfig : BOOLEAN]

\* bot.py:166-169: setup_func returns or raises, then ret_value.load() starts
SetupReturns(s, c, oc) ==
    LET s1 == Logged(s, c, "setup") IN
    IF oc.kind = "raise" THEN Catch(s1, c, "SetupRaised")
    ELSE IF oc.kind = "notStrapon" THEN Catch(s1, c, "NotAStrapon")
    ELSE StraponLoad([s1 EXCEPT !.strapon[c] =
                        [cogs |-> oc.cogs, hasConfig |-> oc.hasConfig,
                         built |-> TRUE]], c)

\* strapon.py:106-112: config.load returns or raises
ConfigLoaded(s, c) ==
    IF ConfigLoads(s.configFile[s.key[c]])
    THEN InstallRequirements(Logged(s, c, "config"), c)
    ELSE Catch(s, c, "ConfigLoadFailed")

\* the exit codes of the installer that the model distinguishes
ExitCodes == {0, 1, 2}

\* subprocess.CalledProcessError(return_code, cmd).returncode
CalledProcessError(return_code) == return_code

\* mutant of InstallerExited: the exit code is not looked at, the call returns
\* True whatever the installer did
InstallerExited_IgnoreCode(s, c, code, dists) ==
    Catch([s EXCEPT !.returnCode[c] = code], c, "RequirementInstallSuccessError")

\* strapon.py:160-164 and 113-114: the installer has exited
InstallerExited(s, c, code, dists) ==
    LET s1 == [s EXCEPT !.returnCode[c] = code] IN
    IF code = 0
    THEN Catch([s1 EXCEPT !.installed = dists], c, "RequirementInstallSuccessError")
    ELSE Catch([s1 EXCEPT !.errCode[c] = CalledProcessError(code)], c,
               "CalledProcessError")

\* strapon.py:117: one add_cog returns or raises (cog_load raised, or a cog of
\* that name is already registered)
CogAdded(s, c, ok) ==
    LET k == s.key[c]
        i == s.nextCog[c]
        taken == \E g \in s.dispatcher : g.module = k /\ g.idx = i
    IN  IF ~ok \/ taken THEN Catch(s, c, "AddCogFailed")
        ELSE LET s1 == Logged([s EXCEPT !.dispatcher =
                                 @ \cup {Cog(k, i, c, s.attempt[c])}], c, "cog")
             IN  IF i = s.strapon[c].cogs THEN Register(s1, c)
                 ELSE [s1 EXCEPT !.nextCog[c] = i + 1]

\* bot.py:172
ModuleReferencesRemoved(s, c) ==
    [s EXCEPT !.dispatcher = RemoveCogsOf(s.key[c], @), !.pc[c] = "finalizers"]

\* bot.py:173-176, and 137-139 when the error is the reload signal:
\* _call_module_finalizers pops the key from both tables, then the error leaves
\* _load_from_module_spec
FinalizersCalled(s, c, oc) ==
    LET k  == s.key[c]
        s1 == [s EXCEPT !.extensions[k] = NoModule, !.sysModules[k] = NoModule]
        e  == Raised(s.err[c])
    IN  IF e = "RequirementInstallSuccessError" /\ RetryCaught(s.attempt[c])
        THEN LoadFromModuleSpec(s1, c, s.attempt[c] + 1, oc)
        ELSE Finish(s1, c, e)

\* mutant of Discovered: every directory with a valid manifest is a candidate,
\* enabled or not
Discovered_NoFilter(files) ==
    LET strapons == {d \in Dirs : files[d].hasInit /\ files[d].hasPyproject}
        bad      == {d \in strapons : StraponMetadata(d, files[d]) # "ok"}
    IN  [ raised    |-> bad # {},
          potential |-> IF bad # {} THEN {} ELSE strapons ]

\* bot.py:189-202: the loop over strapons_dir.iterdir()
Discovered(files) ==
    LET strapons == {d \in Dirs : files[d].hasInit /\ files[d].hasPyproject}
        bad      == {d \in strapons : StraponMetadata(d, files[d]) # "ok"}
    IN  [ raised    |-> bad # {},
          potential |-> IF bad # {} THEN {}
                        ELSE {d \in strapons : files[d].id \in Enabled} ]

----------------------------------------------------------------------------
(* The batch load. *)

configVars == <<cfgSchema, cfgData, cfgFile, cfgPC, cfgResult, cfgOps, everLoaded>>

logVars == <<latestLog, logsDir, logRuns, archived>>

auxVars == <<manifestVars, configVars, logVars>>

vars == <<lifecycleVars, installVars, streamVars, auxVars>>

Streams == {"stdout", "stderr"}

\* the variables of a part of the model that a specification does not run
LifecycleIdle ==
    /\ fs = [d \in Dirs |-> Manifest(d, "valid")]
    /\ configFile = [d \in Dirs |-> "absent"]
    /\ installed = <<>>
    /\ batchPC = "idle"
    /\ potential = {}
    /\ failed = {}
    /\ sysModules = [d \in Dirs |-> NoModule]
    /\ extensions = [d \in Dirs |-> NoModule]
    /\ dispatcher = {}
    /\ pc = [c \in Calls |-> "idle"]
    /\ key = [c \in Calls |-> c]
    /\ attempt = [c \in Calls |-> 0]
    /\ strapon = [c \in Calls |-> NoStrapon]
    /\ nextCog = [c \in Calls |-> 0]
    /\ err = [c \in Calls |-> "none"]
    /\ result = [c \in Calls |-> NoResult]
    /\ installCount = [c \in Calls |-> 0]
    /\ missingSeen = [c \in Calls |-> 0]
    /\ log = [c \in Calls |-> <<>>]
    /\ returnCode = [c \in Calls |-> -1]
    /\ errCode = [c \in Calls |-> -1]
    /\ report = <<>>

InstallIdle ==
    /\ requirements = <<>>
    /\ distributions = <<>>
    /\ irPC = "idle"
    /\ cmdArgs = <<>>
    /\ spawned = 0
    /\ returned = "none"

StreamsIdle ==
    /\ script = <<>>
    /\ childExit = -1
    /\ pipe = [st \in Streams |-> <<>>]
    /\ written = [st \in Streams |-> <<>>]
    /\ reader = [st \in Streams |-> "idle"]
    /\ sink = [st \in Streams |-> <<>>]
    /\ procPC = "idle"

ManifestIdle ==
    /\ packageDir = <<>>
    /\ pyproject = Manifest("da", "valid")
    /\ metaPC = "idle"
    /\ metaId = <<>>
    /\ normalised = <<>>

ConfigIdle ==
    /\ cfgSchema = "Map"
    /\ cfgData = "None"
    /\ cfgFile = "absent"
    /\ cfgPC = "idle"
    /\ cfgResult = <<"none", "none", "none">>
    /\ cfgOps = 0
    /\ everLoaded = FALSE

LogsIdle ==
    /\ latestLog = "absent"
    /\ logsDir = <<>>
    /\ logRuns = 0
    /\ archived = <<>>

AuxIdle ==
    /\ ManifestIdle
    /\ ConfigIdle
    /\ LogsIdle

Init ==
    /\ InstallIdle
    /\ StreamsIdle
    /\ AuxIdle
    /\ fs \in {f \in [Dirs -> [hasInit : BOOLEAN, hasPyproject : BOOLEAN,
                               hasName : BOOLEAN, hasId : BOOLEAN,
                               id : {BaseName(d) : d \in Dirs}
                                    \cup {<<"A", "-", "-", "b">>, <<"z">>}]] :
                 \A d \in Dirs : \E kind \in ManifestKinds : f[d] = Manifest(d, kind)}
    /\ configFile \in {f \in [Dirs -> ConfigContents] :
                        \A d \in Dirs : BaseName(d) \notin Enabled => f[d] = "absent"}
    /\ installed \in {<<Dist("p", 1)>>, <<Dist("p", 2)>>}
    /\ batchPC = "init"
    /\ potential = {}
    /\ failed = {}
    /\ sysModules = [d \in Dirs |-> NoModule]
    /\ extensions = [d \in Dirs |-> NoModule]
    /\ dispatcher = {}
    /\ pc = [c \in Calls |-> "idle"]
    /\ key = [c \in Calls |-> c]
    /\ attempt = [c \in Calls |-> 0]
    /\ strapon = [c \in Calls |-> NoStrapon]
    /\ nextCog = [c \in Calls |-> 0]
    /\ err = [c \in Calls |-> "none"]
    /\ result = [c \in Calls |-> NoResult]
    /\ installCount = [c \in Calls |-> 0]
    /\ missingSeen = [c \in Calls |-> 0]
    /\ log = [c \in Calls |-> <<>>]
    /\ returnCode = [c \in Calls |-> -1]
    /\ errCode = [c \in Calls |-> -1]
    /\ report = <<>>

\* load_all_strapons, lines 183-216: discovery, then the tasks of gather are made
Discover ==
    /\ batchPC = "init"
    /\ LET found == Discovered(fs) IN
        /\ potential' = found.potential
        /\ batchPC' = IF found.raised THEN "raised"
                      ELSE IF found.potential = {} THEN "done" ELSE "gathering"
        /\ pc' = [c \in Calls |-> IF c \in found.potential THEN "start" ELSE pc[c]]
    /\ UNCHANGED <<fs, configFile, installed, failed, sysModules, extensions,
                   dispatcher, key, attempt, strapon, nextCog, err, result,
                   installCount, missingSeen, log, returnCode, errCode, report,
                   installVars, streamVars, auxVars>>

\* a task of gather starts: load_wrapper calls load_extension
TaskStart(c) ==
    /\ c \in Dirs
    /\ pc[c] = "start"
    /\ \E oc \in ExecOutcomes : Set(LoadExtension(St, c, oc))
    /\ UNCHANGED <<fs, batchPC, potential, report, installVars, streamVars, auxVars>>

AwaitSetup(c) ==
    /\ pc[c] = "setup"
    /\ \E oc \in SetupOutcomes : Set(SetupReturns(St, c, oc))
    /\ UNCHANGED <<fs, batchPC, potential, report, installVars, streamVars, auxVars>>

AwaitConfigLoad(c) ==
    /\ pc[c] = "config_load"
    /\ Set(ConfigLoaded(St, c))
    /\ UNCHANGED <<fs, batchPC, potential, report, installVars, streamVars, auxVars>>

AwaitInstaller(c) ==
    /\ pc[c] = "installing"
    /\ \E code \in ExitCodes :
       \E dists \in InstallEffects(Requirements(key[c]), installed) :
            Set(InstallerExited(St, c, code, dists))
    /\ UNCHANGED <<fs, batchPC, potential, report, installVars, streamVars, auxVars>>

AwaitAddCog(c) ==
    /\ pc[c] = "add_cog"
    /\ \E ok \in BOOLEAN : Set(CogAdded(St, c, ok))
    /\ UNCHANGED <<fs, batchPC, potential, report, installVars, streamVars, auxVars>>

AwaitRemoveModuleReferences(c) ==
    /\ pc[c] = "remove_refs"
    /\ Set(ModuleReferencesRemoved(St, c))
    /\ UNCHANGED <<fs, batchPC, potential, report, installVars, streamVars, auxVars>>

AwaitCallModuleFinalizers(c) ==
    /\ pc[c] = "finalizers"
    /\ \E oc \in ExecOutcomes : Set(FinalizersCalled(St, c, oc))
    /\ UNCHANGED <<fs, batchPC, potential, report, installVars, streamVars, auxVars>>

\* mutant of GatherReturned: the wait ends with the first task that has ended
GatherReturned_FirstCompleted(tasks, where) == \E c \in tasks : where[c] = "done"

\* bot.py:213-216: asyncio.gather returns when every task has ended
GatherReturned(tasks, where) == \A c \in tasks : where[c] = "done"

\* bot.py:217-228: the ids logged as equipped and as failed
Report(candidates, failures) == <<candidates \ failures, failures>>

\* load_all_strapons, lines 216-228: gather returns when every task has ended
GatherDone ==
    /\ batchPC = "gathering"
    /\ GatherReturned(potential, pc)
    /\ batchPC' = "done"
    /\ report' = Report(potential, failed)
    /\ UNCHANGED <<fs, configFile, installed, potential, failed, sysModules,
                   extensions, dispatcher, pc, key, attempt, strapon, nextCog,
                   err, result, installCount, missingSeen, log, returnCode,
                   errCode, installVars, streamVars, auxVars>>

Next ==
    \/ Discover
    \/ GatherDone
    \/ \E c \in Calls :
        \/ TaskStart(c)
        \/ AwaitSetup(c)
        \/ AwaitConfigLoad(c)
        \/ AwaitInstaller(c)
        \/ AwaitAddCog(c)
        \/ AwaitRemoveModuleReferences(c)
        \/ AwaitCallModuleFinalizers(c)

Spec == Init /\ [][Next]_vars

----------------------------------------------------------------------------
(* Properties of the batch load (Spec). *)

CogsOf(k) == {g \in dispatcher : g.module = k}

Ended(c) == pc[c] = "done"

\* C1 (rollback completeness): once a load has ended in failure, whatever the
\* failing step was, sys.modules and the extension table hold no entry for the
\* unit and no cog of the unit is registered with the bot: the three are as
\* they were before the load.
C1_RollbackComplete ==
    \A c \in Calls :
        Ended(c) /\ result[c] # "ok" =>
            /\ sysModules[key[c]] = NoModule
            /\ extensions[key[c]] = NoModule
            /\ CogsOf(key[c]) = {}

\* a load that failed at its second add_cog, after the first cog was registered,
\* beside a unit that stays loaded
C1_Witness ==
    \E c \in Calls :
        /\ Ended(c) /\ result[c] = "ExtensionFailed"
        /\ err[c] = "AddCogFailed" /\ nextCog[c] = 2
        /\ \E d \in Calls \ {c} : result[d] = "ok" /\ CogsOf(d) # {}

\* C2 as stated (exactly one retry): a unit whose requirement check found
\* something missing on the first attempt and on the retry fails with the reload
\* signal (RepeatedReloadRequired), is in the failed set, had the installer run
\* exactly twice and was attempted exactly twice.
C2_Original ==
    \A c \in Calls :
        Ended(c) /\ missingSeen[c] = 2 =>
            /\ result[c] = "RequirementInstallSuccessError"
            /\ c \in failed
            /\ installCount[c] = 2
            /\ attempt[c] = 2

\* C2 amended: such a unit fails with the reload signal when the second
\* installer run exits 0 and with the installer's failure when it exits
\* non-zero; either way it is in the failed set, the installer ran exactly
\* twice, and no call ever starts a third attempt or a third installer.
C2_ExactlyOneRetry ==
    /\ \A c \in Calls : attempt[c] <= 2 /\ installCount[c] <= 2 /\ missingSeen[c] <= 2
    /\ \A c \in Calls :
        Ended(c) /\ missingSeen[c] = 2 =>
            /\ \/ result[c] = "RequirementInstallSuccessError"
                    /\ err[c] = "RequirementInstallSuccessError"
               \/ result[c] = "ExtensionFailed" /\ err[c] = "CalledProcessError"
            /\ c \in failed
            /\ installCount[c] = 2
            /\ attempt[c] = 2

C2_Witness ==
    \E c \in Calls :
        /\ Ended(c) /\ missingSeen[c] = 2
        /\ result[c] = "RequirementInstallSuccessError"
        /\ c \in failed

\* C3 (batch isolation): when gather has returned, the failed set holds exactly
\* the candidates whose own load raised, and every other candidate is
\* registered: its module is in sys.modules and in the extension table and all
\* the cogs its setup registered are with the bot, whatever its siblings did.
C3_BatchIsolation ==
    batchPC = "done" =>
        /\ failed = {c \in potential : result[c] # "ok"}
        /\ \A c \in potential \ failed :
            /\ extensions[c] = Lib(c, attempt[c])
            /\ sysModules[c] = Lib(c, attempt[c])
            /\ {g.idx : g \in CogsOf(c)} = 1..strapon[c].cogs

\* one candidate failed in its setup, after which the other is registered with
\* its cogs
C3_Witness ==
    /\ batchPC = "done"
    /\ \E c \in potential :
        /\ c \in failed /\ err[c] = "SetupRaised"
        /\ \E d \in potential \ {c} :
            d \notin failed /\ strapon[d].cogs = MaxCogs /\ CogsOf(d) # {}

\* C4 as stated: a manifest error of one directory never ends the batch, and
\* the candidates are all the other valid, enabled directories.
C4_ManifestErrorNotFatal ==
    batchPC # "init" =>
        /\ batchPC # "raised"
        /\ potential = {d \in Dirs : /\ fs[d].hasInit /\ fs[d].hasPyproject
                                     /\ StraponMetadata(d, fs[d]) = "ok"
                                     /\ fs[d].id \in Enabled}

\* C6 (config idempotence): no step of any load changes a per-unit config file
\* that exists, and a load whose config file exists with valid content never
\* fails in its config step.
C6_ConfigUntouched ==
    /\ [][\A d \in Dirs : configFile[d] # "absent" => configFile'[d] = configFile[d]]_vars
    /\ [](\A c \in Calls : err[c] = "ConfigLoadFailed" => configFile[key[c]] = "invalid")

\* a unit with a config and satisfied requirements is registered and its
\* operator-written config file is as it was
C6_Witness ==
    \E c \in Calls :
        /\ Ended(c) /\ result[c] = "ok" /\ strapon[c].hasConfig
        /\ installCount[c] = 0
        /\ configFile[key[c]] = "custom"

\* C7 (the reload is invisible): the reload signal of a first attempt never
\* reaches load_wrapper, and a unit whose retry succeeded is not in the failed
\* set, has the retry's module as its one entry in the extension table and in
\* sys.modules, and has each cog registered once, by the retry.
C7_ReloadInvisible ==
    \A c \in Calls :
        /\ Ended(c) /\ attempt[c] = 1 => result[c] # "RequirementInstallSuccessError"
        /\ Ended(c) /\ attempt[c] = 2 /\ result[c] = "ok" =>
            /\ c \notin failed
            /\ extensions[key[c]] = <<c, 2>>
            /\ sysModules[key[c]] = <<c, 2>>
            /\ \A g \in CogsOf(key[c]) : g.call = c /\ g.attempt = 2
            /\ \A i \in 1..strapon[c].cogs :
                    Cardinality({g \in CogsOf(key[c]) : g.idx = i}) = 1

C7_Witness ==
    \E c \in Calls :
        /\ Ended(c) /\ attempt[c] = 2 /\ result[c] = "ok"
        /\ installCount[c] = 1
        /\ strapon[c].cogs = MaxCogs

Before(sq, a, b) ==
    \A i \in 1..Len(sq) : sq[i] = b => \E j \in 1..(i - 1) : sq[j] = a

\* C8 as stated: in every attempt, setup runs only after the dependency step
\* has reported that nothing was installed.
C8_SetupAfterDependencies ==
    \A c \in Calls : Before(log[c], "deps", "setup")

\* C8 amended: in every attempt the steps come in the order module execution,
\* setup (which constructs the Strapon), config, dependencies, registration of
\* the cogs; setup runs before the config and dependency steps, and it is the
\* registration of the cogs with the bot that happens only after the
\* dependency step reported that nothing was installed.
C8_LifecycleOrder ==
    \A c \in Calls :
        /\ Before(log[c], "exec", "setup")
        /\ Before(log[c], "setup", "config")
        /\ Before(log[c], "config", "deps")
        /\ Before(log[c], "config", "spawn")
        /\ Before(log[c], "deps", "cog")
        /\ \A i \in 1..Len(log[c]) : log[c][i] = "spawn" => i = Len(log[c])
        /\ \A g \in dispatcher :
              g.call = c /\ g.attempt = attempt[c] /\ ~Ended(c) =>
                  \E i \in 1..Len(log[c]) : log[c][i] = "deps"

C8_Witness ==
    \E c \in Calls : log[c] = <<"exec", "setup", "config", "deps", "cog">>

----------------------------------------------------------------------------
(* One call of Strapon.install_requirements (SpecInstall): the check of the  *)
(* requirements against the snapshot, the spawn, and the installer's exit.   *)

BSeq(S, n) == UNION {[1..k -> S] : k \in 0..n}

PackageNames == {"p", "q"}

ReqChoices == {Req(n, vs) : n \in PackageNames, vs \in (SUBSET Versions) \ {{}}}

DistChoices == {Dist(n, v) : n \in PackageNames, v \in Versions}

InitInstall ==
    /\ LifecycleIdle
    /\ StreamsIdle
    /\ AuxIdle
    /\ requirements \in BSeq(ReqChoices, MaxReqs)
    /\ distributions \in BSeq(DistChoices, MaxDists)
    /\ irPC = "called"
    /\ cmdArgs = <<>>
    /\ spawned = 0
    /\ returned = "none"

\* strapon.py:123-149: the snapshot is checked; nothing missing returns False,
\* otherwise the installer is spawned with the missing requirements
CheckRequirements ==
    /\ irPC = "called"
    /\ LET miss == missing_requirements(requirements, distributions) IN
        IF miss = <<>>
        THEN /\ irPC' = "done"
             /\ returned' = "False"
             /\ UNCHANGED <<cmdArgs, spawned>>
        ELSE /\ irPC' = "spawned"
             /\ cmdArgs' = miss
             /\ spawned' = spawned + 1
             /\ UNCHANGED returned
    /\ UNCHANGED <<requirements, distributions, lifecycleVars, streamVars,
                   auxVars>>

\* strapon.py:156-164: the streams are drained, the exit code decides
InstallerFinished(return_code) ==
    /\ irPC = "spawned"
    /\ irPC' = "done"
    /\ returned' = IF return_code # 0 THEN "CalledProcessError" ELSE "True"
    /\ UNCHANGED <<requirements, distributions, cmdArgs, spawned, lifecycleVars,
                   streamVars, auxVars>>

NextInstall ==
    \/ CheckRequirements
    \/ \E return_code \in {0, 1} : InstallerFinished(return_code)

SpecInstall == InitInstall /\ [][NextInstall]_vars

----------------------------------------------------------------------------
(* The installer child, its pipes and the two log_stream tasks (SpecStreams), *)
(* strapon.py:145-164.                                                        *)

\* the lines the child may write, without their newline
Lines == {<<>>, <<" ">>, <<"x">>, <<"x", " ">>}

Whitespace == {" ", "\n"}

\* str.rstrip()
RECURSIVE rstrip(_)
rstrip(t) ==
    IF t # <<>> /\ t[Len(t)] \in Whitespace THEN rstrip(SubSeq(t, 1, Len(t) - 1))
    ELSE t

\* stream.readline(): the next line with its newline, or b"" at end of stream
readline(buffered) ==
    IF buffered # <<>> THEN Head(buffered) \o <<"\n">> ELSE <<>>

InitStreams ==
    /\ LifecycleIdle
    /\ InstallIdle
    /\ AuxIdle
    /\ script \in BSeq(Streams \X Lines, MaxLines)
    /\ childExit = -1
    /\ pipe = [st \in Streams |-> <<>>]
    /\ written = [st \in Streams |-> <<>>]
    /\ reader = [st \in Streams |-> "reading"]
    /\ sink = [st \in Streams |-> <<>>]
    /\ procPC = "gather"

\* the child writes its next line; the write blocks while the pipe is full
ChildWrite ==
    /\ childExit = -1
    /\ script # <<>>
    /\ LET st == Head(script)[1]
           line == Head(script)[2]
       IN  /\ Len(pipe[st]) < PipeCap
           /\ pipe' = [pipe EXCEPT ![st] = Append(@, line)]
           /\ written' = [written EXCEPT ![st] = Append(@, line)]
    /\ script' = Tail(script)
    /\ UNCHANGED <<childExit, reader, sink, procPC, lifecycleVars, installVars,
                   auxVars>>

\* the child has written everything and exits, which closes both pipes
ChildExits(code) ==
    /\ childExit = -1
    /\ script = <<>>
    /\ childExit' = code
    /\ UNCHANGED <<script, pipe, written, reader, sink, procPC, lifecycleVars,
                   installVars, auxVars>>

\* strapon.py:152-154: one turn of the while loop of log_stream; readline
\* returns when a line is buffered or the stream has ended
LogStream(st) ==
    /\ procPC = "gather"
    /\ reader[st] = "reading"
    /\ pipe[st] # <<>> \/ childExit # -1
    /\ LET line == rstrip(readline(pipe[st])) IN
        IF line # <<>>
        THEN /\ sink' = [sink EXCEPT ![st] = Append(@, line)]
             /\ UNCHANGED reader
        ELSE /\ reader' = [reader EXCEPT ![st] = "done"]
             /\ UNCHANGED sink
    /\ pipe' = [pipe EXCEPT ![st] = IF @ # <<>> THEN Tail(@) ELSE @]
    /\ UNCHANGED <<script, childExit, written, procPC, lifecycleVars, installVars,
                   auxVars>>

\* strapon.py:156-160: gather returns when both log_stream tasks have ended
GatherReturns ==
    /\ procPC = "gather"
    /\ \A st \in Streams : reader[st] = "done"
    /\ procPC' = "wait"
    /\ UNCHANGED <<script, childExit, pipe, written, reader, sink, lifecycleVars,
                   installVars, auxVars>>

\* strapon.py:160-164: process.wait() returns once the child has exited
ProcessWait ==
    /\ procPC = "wait"
    /\ childExit # -1
    /\ procPC' = IF childExit # 0 THEN "raised" ELSE "returned"
    /\ UNCHANGED <<script, childExit, pipe, written, reader, sink, lifecycleVars,
                   installVars, auxVars>>

NextStreams ==
    \/ ChildWrite
    \/ \E code \in {0, 1} : ChildExits(code)
    \/ \E st \in Streams : LogStream(st)
    \/ GatherReturns
    \/ ProcessWait

SpecStreams == InitStreams /\ [][NextStreams]_vars

----------------------------------------------------------------------------
(* Properties of install_requirements (SpecInstall, SpecStreams). *)

\* a requirement is satisfied by a snapshot when a distribution of its name is
\* in it and the version found first under that name is within the specifier
C5_Satisfied(r, dists) ==
    \E i \in 1..Len(dists) :
        /\ dists[i].name = r.name
        /\ \A j \in 1..(i - 1) : dists[j].name # r.name
        /\ dists[i].version \in r.specifier

NonBlank(lines) ==
    LET kept(t) == t # <<>> IN
    SelectSeq([i \in 1..Len(lines) |-> rstrip(lines[i])], kept)

\* C9 as stated: when the streams have been drained and the exit status is
\* awaited, every line the child wrote to standard output has reached
\* logger.info and every line it wrote to standard error logger.error (blank
\* lines apart, which carry nothing to log), and no written line is left unread.
C9_StreamsDrained ==
    procPC \in {"wait", "returned", "raised"} =>
        \A st \in Streams :
            /\ sink[st] = NonBlank(written[st])
            /\ pipe[st] = <<>>

\* C10 as stated: install_requirements never hangs: until it has returned or
\* raised, the child, a log_stream task, gather or the wait can take a step.
C10_NoDeadlock ==
    procPC \in {"returned", "raised"} \/ ENABLED NextStreams


----------------------------------------------------------------------------
(* The installer's exit code in a load (Spec). *)

\* the load of call c was ended by a non-zero exit of the installer
InstallFailed(c) == Ended(c) /\ err[c] = "CalledProcessError"

\* C11 as stated: a non-zero exit of the installer makes install_requirements
\* raise CalledProcessError with that exit code; the load is rolled back, ends
\* with ExtensionFailed and not with the reload signal, the unit is in the
\* failed set, and the installer was invoked exactly once in that load.
C11_Original ==
    \A c \in Calls :
        InstallFailed(c) =>
            /\ errCode[c] = returnCode[c] /\ returnCode[c] # 0
            /\ result[c] = "ExtensionFailed"
            /\ c \in failed
            /\ installCount[c] = 1

\* C11 amended: an installer that exits with zero makes install_requirements
\* return True (Strapon.load then raises the reload signal); one that exits
\* non-zero makes it raise CalledProcessError carrying that exit code, which is
\* handled as any other failure of the load: the rollback runs, no attempt and
\* no installer follows it, the load ends with ExtensionFailed and the unit is
\* in the failed set with nothing of it left in sys.modules, the extension
\* table or the bot's cogs.  The installer ran once in the failing attempt; it
\* ran twice in the load when the failing attempt was the retry.
C11_InstallFailure ==
    \A c \in Calls :
        /\ returnCode[c] = 0 =>
                err[c] = "RequirementInstallSuccessError" /\ errCode[c] = -1
        /\ returnCode[c] > 0 =>
                /\ err[c] = "CalledProcessError"
                /\ errCode[c] = returnCode[c]
                /\ pc[c] \in {"remove_refs", "finalizers", "done"}
        /\ InstallFailed(c) =>
                /\ errCode[c] = returnCode[c] /\ returnCode[c] # 0
                /\ result[c] = "ExtensionFailed"
                /\ c \in failed
                /\ installCount[c] = attempt[c]
                /\ sysModules[key[c]] = NoModule
                /\ extensions[key[c]] = NoModule
                /\ CogsOf(key[c]) = {}

\* the installer of a first attempt exited with 2: the load has ended, failed,
\* after one attempt and one installer
C11_Witness ==
    \E c \in Calls :
        /\ InstallFailed(c) /\ errCode[c] = 2
        /\ attempt[c] = 1 /\ installCount[c] = 1
        /\ c \in failed


----------------------------------------------------------------------------
(* One construction of StraponMetadata and importable_normalise        *)
(* (SpecManifest), strapon.py:24-58.                                     *)

\* the longest project id and directory name drawn
MaxIdLen == 3

\* the characters of a project id: a letter in both cases and the separators
IdChars == {"a", "A", "-", "_", "."}

\* the characters of a directory name
DirChars == {"a", "A", "_"}

\* how often importable_normalise is applied to its own result
NormaliseRounds == 2

InitManifest ==
    /\ LifecycleIdle
    /\ InstallIdle
    /\ StreamsIdle
    /\ ConfigIdle
    /\ LogsIdle
    /\ packageDir \in BSeq(DirChars, MaxIdLen) \ {<<>>}
    /\ pyproject \in {[hasInit |-> TRUE, hasPyproject |-> k # "noPyproject",
                       hasName |-> k # "noName", hasId |-> k # "noId",
                       id |-> i] :
                        k \in {"valid", "noPyproject", "noName", "noId"},
                        i \in BSeq(IdChars, MaxIdLen)}
    /\ metaPC = "new"
    /\ metaId = <<>>
    /\ normalised = <<>>

\* strapon.py:34-58: StraponMetadata(package_dir) returns the object or raises;
\* self.id is assigned at line 52, before the two checks of it
Construct ==
    /\ metaPC = "new"
    /\ LET r == StraponMetadataInit(packageDir, pyproject) IN
        /\ metaPC' = IF r = "ok" THEN "built" ELSE r
        /\ metaId' = IF pyproject.hasPyproject /\ pyproject.hasName /\ pyproject.hasId
                     THEN pyproject.id ELSE <<>>
    /\ UNCHANGED <<packageDir, pyproject, normalised, lifecycleVars, installVars,
                   streamVars, configVars, logVars>>

\* importable_normalise applied to the declared id, then to its own result
Normalise ==
    /\ Len(normalised) < NormaliseRounds
    /\ normalised' = Append(normalised,
                            importable_normalise(IF normalised = <<>> THEN pyproject.id
                                                 ELSE normalised[Len(normalised)]))
    /\ UNCHANGED <<packageDir, pyproject, metaPC, metaId, lifecycleVars,
                   installVars, streamVars, configVars, logVars>>

NextManifest ==
    \/ Construct
    \/ Normalise

SpecManifest == InitManifest /\ [][NextManifest]_vars

\* the normal form of an id, said without importable_normalise: no upper-case
\* letter, no "-" and no ".", and no two "_" in a row
IsNormalised(id) ==
    /\ \A i \in 1..Len(id) : id[i] \notin {"A", "B", "C", "-", "."}
    /\ \A i \in 1..(Len(id) - 1) : ~(id[i] = "_" /\ id[i + 1] = "_")

\* C12 (manifest validation): the construction of StraponMetadata raises
\* ValueError for every manifest whose id is not in normal form or is not the
\* directory's name, so a StraponMetadata that exists has an id that is in
\* normal form, equal to its own normalisation and to the directory's name;
\* importable_normalise yields the normal form and is idempotent.
C12_ManifestValidated ==
    /\ metaPC # "new" /\ pyproject.hasPyproject /\ pyproject.hasName /\ pyproject.hasId
         /\ (~IsNormalised(pyproject.id) \/ pyproject.id # packageDir) =>
            metaPC = "ValueError"
    /\ metaPC = "built" =>
            /\ IsNormalised(metaId)
            /\ metaId = importable_normalise(metaId)
            /\ metaId = packageDir
    /\ \A i \in 1..Len(normalised) :
            /\ IsNormalised(normalised[i])
            /\ normalised[i] = normalised[1]

\* an id with a run of separators and an upper-case letter was refused, and
\* normalising it twice gave the same normal form, which differs from the id
C12_Witness ==
    /\ metaPC = "ValueError"
    /\ pyproject.id = <<"A", "-", ".">>
    /\ Len(normalised) = NormaliseRounds
    /\ normalised[2] = <<"a", "_">>


\* the same for the batch load (Spec): a unit that is a candidate, has a module
\* in sys.modules or in the extension table, or has a cog with the bot, lives in
\* a directory whose manifest id is in normal form and is the directory's name
LoadedUnitsValid ==
    \A d \in Dirs :
        d \in potential \/ sysModules[d] # NoModule \/ extensions[d] # NoModule
          \/ CogsOf(d) # {} =>
            /\ IsNormalised(fs[d].id)
            /\ fs[d].id = importable_normalise(fs[d].id)
            /\ fs[d].id = BaseName(d)


----------------------------------------------------------------------------
(* The allowlist of load_all_strapons (Spec). *)

\* metadata.id in self.bot_config.data["enabled_strapons"]
Allowed(d) == fs[d].id \in Enabled

\* nothing of the unit in directory d has run or is registered
Untouched(d) ==
    /\ pc[d] = "idle" /\ attempt[d] = 0 /\ result[d] = NoResult
    /\ installCount[d] = 0 /\ missingSeen[d] = 0
    /\ strapon[d] = NoStrapon
    /\ sysModules[d] = NoModule
    /\ extensions[d] = NoModule
    /\ CogsOf(d) = {}
    /\ d \notin failed

\* C13 (allowlist filter): a load task exists only for a directory that was
\* discovered with a valid manifest whose id is in enabled_strapons; for a
\* directory whose id is not in the list no load_extension is ever started, so
\* its module is never executed, no installer is spawned for it, none of its
\* cogs is registered and the extension table never holds it.
C13_AllowlistFilter ==
    \A d \in Dirs :
        /\ d \in potential \/ pc[d] # "idle" =>
                /\ Allowed(d)
                /\ fs[d].hasInit /\ fs[d].hasPyproject
                /\ StraponMetadata(d, fs[d]) = "ok"
                /\ d \in potential
        /\ ~Allowed(d) => Untouched(d)

\* the batch has ended with both enabled units loaded; a third directory with
\* a valid manifest whose id is not enabled was left alone
C13_Witness ==
    /\ batchPC = "done"
    /\ \E d \in Dirs :
        /\ ~Allowed(d) /\ fs[d].hasInit /\ StraponMetadata(d, fs[d]) = "ok"
        /\ Untouched(d)
        /\ \A o \in Dirs \ {d} : result[o] = "ok" /\ CogsOf(o) # {}


----------------------------------------------------------------------------
(* Two callers of load_extension for one extension name (SpecDirect),    *)
(* bot.py:125-180.  Each runs as its own task, so the two interleave at  *)
(* the awaits; a caller may also start after the other has returned.     *)

\* the two callers (named as the tasks of the batch are) and the name they load
DirectCalls == {"da", "db"}
DirectKey == "db"

InitDirect ==
    /\ InstallIdle
    /\ StreamsIdle
    /\ AuxIdle
    /\ fs = [d \in Dirs |-> Manifest(d, "valid")]
    /\ configFile \in {f \in [Dirs -> ConfigContents] :
                        \A d \in Dirs \ {DirectKey} : f[d] = "absent"}
    /\ installed \in {<<Dist("p", 1)>>, <<Dist("p", 2)>>}
    /\ batchPC = "idle"
    /\ potential = {}
    /\ failed = {}
    /\ sysModules = [d \in Dirs |-> NoModule]
    /\ extensions = [d \in Dirs |-> NoModule]
    /\ dispatcher = {}
    /\ pc = [c \in Calls |-> IF c \in DirectCalls THEN "start" ELSE "idle"]
    /\ key = [c \in Calls |-> DirectKey]
    /\ attempt = [c \in Calls |-> 0]
    /\ strapon = [c \in Calls |-> NoStrapon]
    /\ nextCog = [c \in Calls |-> 0]
    /\ err = [c \in Calls |-> "none"]
    /\ result = [c \in Calls |-> NoResult]
    /\ installCount = [c \in Calls |-> 0]
    /\ missingSeen = [c \in Calls |-> 0]
    /\ log = [c \in Calls |-> <<>>]
    /\ returnCode = [c \in Calls |-> -1]
    /\ errCode = [c \in Calls |-> -1]
    /\ report = <<>>

NextDirect ==
    \E c \in Calls :
        \/ TaskStart(c)
        \/ AwaitSetup(c)
        \/ AwaitConfigLoad(c)
        \/ AwaitInstaller(c)
        \/ AwaitAddCog(c)
        \/ AwaitRemoveModuleReferences(c)
        \/ AwaitCallModuleFinalizers(c)

SpecDirect == InitDirect /\ [][NextDirect]_vars

\* C14 (ExtensionAlreadyLoaded): a load_extension call made while its name is in
\* the extension table raises ExtensionAlreadyLoaded in that same step, before
\* the module is executed, and the step changes neither the extension table nor
\* sys.modules nor the cogs registered with the bot; a call that ended so has
\* run no attempt, spawned no installer and registered no cog.
C14_AlreadyLoaded ==
    /\ [][\A c \in Calls :
            pc[c] = "start" /\ pc'[c] # "start" /\ extensions[key[c]] # NoModule =>
                /\ pc'[c] = "done" /\ result'[c] = "ExtensionAlreadyLoaded"
                /\ attempt'[c] = 0
                /\ extensions' = extensions
                /\ sysModules' = sysModules
                /\ dispatcher' = dispatcher]_vars
    /\ [](\A c \in Calls :
            result[c] = "ExtensionAlreadyLoaded" =>
                /\ attempt[c] = 0 /\ installCount[c] = 0
                /\ \A g \in dispatcher : g.call # c)

\* one caller has loaded the extension with its cogs; the other, started
\* afterwards, was refused, and the extension is still as the first left it
C14_Witness ==
    \E c \in DirectCalls, d \in DirectCalls :
        /\ result[c] = "ExtensionAlreadyLoaded"
        /\ result[d] = "ok" /\ strapon[d].cogs = MaxCogs
        /\ extensions[DirectKey] = Lib(d, attempt[d])
        /\ sysModules[DirectKey] = Lib(d, attempt[d])
        /\ {g.idx : g \in CogsOf(DirectKey)} = 1..MaxCogs


----------------------------------------------------------------------------
(* One StraponConfig object used with one file (SpecConfig), config.py:9-38. *)

\* the operations on the object that the model follows
MaxOps == 4

\* the texts the file can hold: two spellings of one mapping, another mapping,
\* a sequence, and text that is no YAML
Texts == {"a: 1", "a:  1", "a: 2", "- x", "a: ["}

\* self.schema: a Map, as annotated, or a schema that lets any document pass
Schemas == {"Map", "Any"}

None == "None"

\* YAML.data of the YAML object made from a text
Data(text) ==
    CASE text = "a: 1"  -> "{a: 1}"
      [] text = "a:  1" -> "{a: 1}"
      [] text = "a: 2"  -> "{a: 2}"
      [] OTHER          -> "[x]"

\* isinstance(data, dict)
IsDict(data) == data \in {"{a: 1}", "{a: 2}"}

\* YAML.as_yaml(): the document in the canonical text form
as_yaml(text) ==
    CASE Data(text) = "{a: 1}" -> "a: 1"
      [] Data(text) = "{a: 2}" -> "a: 2"
      [] OTHER                 -> "- x"

\* strictyaml.load(text, schema): the YAML object (held as its text), or the
\* exception raised
strictyaml_load(text, schema) ==
    IF text = "a: [" \/ text = "" THEN "YAMLValidationError"
    ELSE IF schema = "Map" /\ ~IsDict(Data(text)) THEN "YAMLValidationError"
    ELSE text

\* mutant of LoadOutcome: self._data is assigned before the check of line 29
LoadOutcome_AssignFirst(text, schema, held) ==
    LET y == strictyaml_load(text, schema) IN
    IF y = "YAMLValidationError" THEN [raised |-> y, data |-> held]
    ELSE IF ~IsDict(Data(y)) THEN [raised |-> "ValueError", data |-> y]
    ELSE [raised |-> "no", data |-> y]

\* config.py:24-32: what load does with the text it read; held is self._data
LoadOutcome(text, schema, held) ==
    LET y == strictyaml_load(text, schema) IN
    IF y = "YAMLValidationError" THEN [raised |-> y, data |-> held]
    ELSE IF ~IsDict(Data(y)) THEN [raised |-> "ValueError", data |-> held]
    ELSE [raised |-> "no", data |-> y]

InitConfig ==
    /\ LifecycleIdle
    /\ InstallIdle
    /\ StreamsIdle
    /\ ManifestIdle
    /\ LogsIdle
    /\ cfgSchema \in Schemas
    /\ cfgData = None
    /\ cfgFile \in Texts \cup {"", "absent"}
    /\ cfgPC = "idle"
    /\ cfgResult = <<"none", "none", "none">>
    /\ cfgOps = 0
    /\ everLoaded = FALSE

\* config.py:15-20: the data property
DataGet ==
    /\ cfgPC = "idle" /\ cfgOps < MaxOps
    /\ cfgResult' = IF cfgData = None THEN <<"data", "returned", None>>
                    ELSE IF ~IsDict(Data(cfgData))
                         THEN <<"data", "raised", "AssertionError">>
                         ELSE <<"data", "returned", Data(cfgData)>>
    /\ cfgOps' = cfgOps + 1
    /\ UNCHANGED <<cfgSchema, cfgData, cfgFile, cfgPC, everLoaded, lifecycleVars,
                   installVars, streamVars, manifestVars, logVars>>

\* config.py:23: load opens the file for reading
LoadOpen ==
    /\ cfgPC = "idle" /\ cfgOps < MaxOps
    /\ IF cfgFile = "absent"
       THEN /\ cfgResult' = <<"load", "raised", "FileNotFoundError">>
            /\ cfgOps' = cfgOps + 1
            /\ UNCHANGED cfgPC
       ELSE /\ cfgPC' = "load_read"
            /\ UNCHANGED <<cfgResult, cfgOps>>
    /\ UNCHANGED <<cfgSchema, cfgData, cfgFile, everLoaded, lifecycleVars,
                   installVars, streamVars, manifestVars, logVars>>

\* config.py:24-32: the text is read and parsed; self._data is set at line 31
LoadRead ==
    /\ cfgPC = "load_read"
    /\ LET out == LoadOutcome(cfgFile, cfgSchema, cfgData)
       IN  /\ cfgData' = out.data
           /\ cfgResult' = IF out.raised = "no" THEN <<"load", "returned", Data(out.data)>>
                           ELSE <<"load", "raised", out.raised>>
           /\ everLoaded' = (everLoaded \/ out.raised = "no")
    /\ cfgPC' = "idle"
    /\ cfgOps' = cfgOps + 1
    /\ UNCHANGED <<cfgSchema, cfgFile, lifecycleVars, installVars, streamVars,
                   manifestVars, logVars>>

\* config.py:34-37: save raises when nothing is loaded, else opens the file for
\* writing, which empties it
SaveOpen ==
    /\ cfgPC = "idle" /\ cfgOps < MaxOps
    /\ IF cfgData = None
       THEN /\ cfgResult' = <<"save", "raised", "ValueError">>
            /\ cfgOps' = cfgOps + 1
            /\ UNCHANGED <<cfgPC, cfgFile>>
       ELSE /\ cfgPC' = "save_write"
            /\ cfgFile' = ""
            /\ UNCHANGED <<cfgResult, cfgOps>>
    /\ UNCHANGED <<cfgSchema, cfgData, everLoaded, lifecycleVars, installVars,
                   streamVars, manifestVars, logVars>>

\* config.py:38: the document is written
SaveWrite ==
    /\ cfgPC = "save_write"
    /\ cfgFile' = as_yaml(cfgData)
    /\ cfgResult' = <<"save", "returned", None>>
    /\ cfgPC' = "idle"
    /\ cfgOps' = cfgOps + 1
    /\ UNCHANGED <<cfgSchema, cfgData, everLoaded, lifecycleVars, installVars,
                   streamVars, manifestVars, logVars>>

\* the operator edits, empties or removes the file between two operations
EditFile(text) ==
    /\ cfgPC = "idle" /\ cfgOps < MaxOps
    /\ cfgFile # text
    /\ cfgFile' = text
    /\ UNCHANGED <<cfgSchema, cfgData, cfgPC, cfgResult, cfgOps, everLoaded,
                   lifecycleVars, installVars, streamVars, manifestVars, logVars>>

NextConfig ==
    \/ DataGet
    \/ LoadOpen
    \/ LoadRead
    \/ SaveOpen
    \/ SaveWrite
    \/ \E text \in Texts \cup {"", "absent"} : EditFile(text)

SpecConfig == InitConfig /\ [][NextConfig]_vars


\* C15 (the StraponConfig state machine): after any operations, a save raises
\* the "No config loaded." ValueError exactly when no load has returned before
\* it, and that save leaves the file as it is; the data property never raises,
\* gives None while no load has returned and the mapping of the held document
\* afterwards; a load that raises leaves self._data as it was.
C15_ConfigStateMachine ==
    /\ [](/\ everLoaded <=> cfgData # None
          /\ cfgData # None => IsDict(Data(cfgData))
          /\ cfgPC = "save_write" => everLoaded
          /\ cfgResult[1] = "save" =>
                (cfgResult = <<"save", "raised", "ValueError">> <=> ~everLoaded)
          /\ cfgResult[1] = "data" =>
                /\ cfgResult[2] = "returned"
                /\ cfgResult[3] = IF everLoaded THEN Data(cfgData) ELSE None)
    /\ [][/\ cfgOps' # cfgOps /\ cfgResult'[1] = "save" /\ cfgResult'[2] = "raised" =>
                cfgFile' = cfgFile /\ cfgData' = cfgData
          /\ cfgOps' # cfgOps /\ cfgResult'[1] = "load" /\ cfgResult'[2] = "raised" =>
                cfgData' = cfgData /\ everLoaded' = everLoaded
          /\ cfgOps' # cfgOps /\ cfgResult'[1] = "data" =>
                cfgData' = cfgData /\ cfgFile' = cfgFile]_vars

\* a document is held, then a load of a file that holds a sequence raised
\* ValueError under a schema that lets it pass, and the document is still held
C15_Witness ==
    /\ cfgResult = <<"load", "raised", "ValueError">>
    /\ everLoaded /\ cfgData = "a:  1"
    /\ cfgFile = "- x"


----------------------------------------------------------------------------
(* The archival of logs/latest.log by setup_bot_logging (SpecLogs),      *)
(* bot.py:94-120.                                                        *)

\* the highest log_number an archive of one date has, and the runs followed
MaxLogNumber == 2
MaxRuns == 2

\* the dates that "%Y-%m-%d" parses
LogDates == {"2024-01-05", "2024-01-06"}

\* what latest.log can hold: nothing, less than a stamp, lines that begin with
\* a date, a stamp with a month 13, and text that begins with no stamp
LogContents ==
    {"", "2024-01", "2024-01-05 a", "2024-01-05 b", "2024-01-06 a",
     "2024-13-01 a", "hello world!"}

\* file.read(timestamp_length): the first ten characters
ReadStamp(content) ==
    CASE content \in {"2024-01-05 a", "2024-01-05 b"} -> "2024-01-05"
      [] content = "2024-01-06 a" -> "2024-01-06"
      [] content = "2024-13-01 a" -> "2024-13-01"
      [] content = "hello world!" -> "hello worl"
      [] OTHER -> content

\* datetime.datetime.strptime(date_str, "%Y-%m-%d") does not raise ValueError
strptime(date_str) == date_str \in LogDates

\* bot.py:98-104
date_str(content) ==
    IF strptime(ReadStamp(content)) THEN ReadStamp(content) ELSE "INVALID"

\* the paths logs/<date_str>.<log_number>.log
ArchivePaths == (LogDates \cup {"INVALID"}) \X (1..MaxLogNumber)

\* mutant of timestamp_log_path: the number the search starts at is taken
timestamp_log_path_First(date, dir, log_number) == <<date, log_number>>

\* bot.py:106-110: the first path, counting from log_number, that is no file
RECURSIVE timestamp_log_path(_, _, _)
timestamp_log_path(date, dir, log_number) ==
    IF dir[<<date, log_number>>] = "absent" THEN <<date, log_number>>
    ELSE timestamp_log_path(date, dir, log_number + 1)

InitLogs ==
    /\ LifecycleIdle
    /\ InstallIdle
    /\ StreamsIdle
    /\ ManifestIdle
    /\ ConfigIdle
    /\ latestLog \in LogContents \cup {"absent"}
    /\ logsDir \in [ArchivePaths -> {"absent", "old"}]
    /\ logRuns = 0
    /\ archived = <<>>

\* bot.py:94-120: latest.log, when it is a file, is renamed to the archive path;
\* the FileHandler then opens latest.log with mode "w"
SetupBotLogging ==
    /\ logRuns < MaxRuns
    /\ latestLog # "absent" =>
            \E n \in 1..MaxLogNumber : logsDir[<<date_str(latestLog), n>>] = "absent"
    /\ IF latestLog # "absent"
       THEN LET path == timestamp_log_path(date_str(latestLog), logsDir, 1) IN
                /\ logsDir' = [logsDir EXCEPT ![path] = latestLog]
                /\ archived' = Append(archived, path)
       ELSE UNCHANGED <<logsDir, archived>>
    /\ latestLog' = ""
    /\ logRuns' = logRuns + 1
    /\ UNCHANGED <<lifecycleVars, installVars, streamVars, manifestVars, configVars>>

\* between two runs the handlers write to latest.log, or the file is replaced
\* or removed
LogChanged(content) ==
    /\ logRuns < MaxRuns
    /\ latestLog # content
    /\ latestLog' = content
    /\ UNCHANGED <<logsDir, logRuns, archived, lifecycleVars, installVars,
                   streamVars, manifestVars, configVars>>

NextLogs ==
    \/ SetupBotLogging
    \/ \E content \in LogContents \cup {"absent"} : LogChanged(content)

SpecLogs == InitLogs /\ [][NextLogs]_vars

\* the stamp of a content, said without ReadStamp and strptime
StampOf(content) ==
    IF content \in {"2024-01-05 a", "2024-01-05 b"} THEN "2024-01-05"
    ELSE IF content = "2024-01-06 a" THEN "2024-01-06"
    ELSE "INVALID"

\* C16 (log archival): a run of setup_bot_logging that finds latest.log renames
\* it to <date>.<n>.log, <date> being the date the file begins with, or INVALID
\* when it begins with none, and n the least number from 1 for which no such
\* file exists; that archive then holds what latest.log held, every other
\* archive is as it was, and latest.log is empty.  So a run that finds
\* <date>.1.log and a latest.log of that date makes <date>.2.log.  A run that
\* finds no latest.log archives nothing.
C16_LogArchival ==
    [][logRuns' # logRuns =>
        /\ latestLog' = ""
        /\ IF latestLog = "absent"
           THEN logsDir' = logsDir /\ archived' = archived
           ELSE \E n \in 1..MaxLogNumber :
                    LET path == <<StampOf(latestLog), n>> IN
                    /\ logsDir[path] = "absent"
                    /\ \A m \in 1..(n - 1) : logsDir[<<StampOf(latestLog), m>>] # "absent"
                    /\ logsDir' = [logsDir EXCEPT ![path] = latestLog]
                    /\ archived' = Append(archived, path)]_vars

\* two runs, each on a latest.log of 2024-01-05: the first made
\* 2024-01-05.1.log, the second 2024-01-05.2.log, each with its content
C16_Witness ==
    /\ logRuns = 2
    /\ archived = << <<"2024-01-05", 1>>, <<"2024-01-05", 2>> >>
    /\ logsDir[<<"2024-01-05", 1>>] = "2024-01-05 a"
    /\ logsDir[<<"2024-01-05", 2>>] = "2024-01-05 b"
    /\ latestLog = ""


----------------------------------------------------------------------------
(* The classification of the requirements (SpecInstall). *)

\* satisfied as C17 states it: some distribution of the snapshot has the name
\* and a version within the specifier
SatisfiedBySome(r, dists) ==
    \E i \in 1..Len(dists) :
        dists[i].name = r.name /\ dists[i].version \in r.specifier

\* C17 as stated: the installer's command line holds exactly the requirements
\* that no distribution of the snapshot satisfies, in declaration order, and no
\* installer is spawned when there is none.
C17_Original ==
    irPC \in {"spawned", "done"} =>
        LET missing(r) == ~SatisfiedBySome(r, distributions) IN
        /\ cmdArgs = SelectSeq(requirements, missing)
        /\ spawned = IF cmdArgs = <<>> THEN 0 ELSE 1

\* C17 amended: a requirement is satisfied when the snapshot holds a
\* distribution of its name and the version importlib.metadata resolves for
\* that name, which is that of the first such distribution, is within the
\* specifier; a later distribution of the name does not count.  The installer's
\* command line holds exactly the requirements that are not satisfied, in
\* declaration order, and no installer is spawned when all are satisfied.
C17_Classification ==
    irPC \in {"spawned", "done"} =>
        LET missing(r) == ~C5_Satisfied(r, distributions) IN
        /\ cmdArgs = SelectSeq(requirements, missing)
        /\ spawned = IF cmdArgs = <<>> THEN 0 ELSE 1
        /\ \A i \in 1..Len(requirements) :
              ~SatisfiedBySome(requirements[i], distributions) =>
                  \E j \in 1..Len(cmdArgs) : cmdArgs[j] = requirements[i]

\* two distributions of p, version 1 before version 2, and two requirements on
\* p: the one that admits 1 is satisfied, the one that admits only 2 is on the
\* command line although version 2 is in the snapshot
C17_Witness ==
    /\ irPC = "spawned"
    /\ distributions = <<Dist("p", 1), Dist("p", 2)>>
    /\ requirements = <<Req("p", {1}), Req("p", {2})>>
    /\ cmdArgs = <<Req("p", {2})>>


----------------------------------------------------------------------------
(* What the other tasks can see of a load at its awaits (Spec). *)

\* C18 as stated: at every suspension point of every task (the states of the
\* model are the points where some task is suspended or has ended) a unit is
\* in sys.modules or has cogs with the bot exactly when it is in the extension
\* table; no task ever sees a unit half-registered, rollbacks included.
C18_NoHalfRegistration ==
    \A k \in Dirs :
        (sysModules[k] # NoModule \/ CogsOf(k) # {}) <=> extensions[k] # NoModule


----------------------------------------------------------------------------
(* The report of load_all_strapons (Spec). *)

\* C19 (join barrier and partition): the two sets are logged only when every
\* load task has ended; they are disjoint, together they are the candidates,
\* and a candidate is among the equipped exactly when the extension table holds
\* its key at that moment and among the failed exactly when it does not.
C19_JoinAndPartition ==
    report # <<>> =>
        /\ batchPC = "done"
        /\ \A c \in potential : Ended(c)
        /\ report[1] \cap report[2] = {}
        /\ report[1] \cup report[2] = potential
        /\ \A c \in potential :
            /\ c \in report[1] <=> extensions[key[c]] # NoModule
            /\ c \in report[2] <=> extensions[key[c]] = NoModule
            /\ c \in report[1] <=> result[c] = "ok"

\* a report with one unit equipped and one failed, the latter after its
\* installer had run
C19_Witness ==
    /\ report # <<>>
    /\ \E c \in potential, d \in potential :
        /\ report = <<{c}, {d}>>
        /\ installCount[d] > 0
        /\ CogsOf(c) # {}


----------------------------------------------------------------------------
(* Two interleaved loads of one extension name (SpecDirect). *)

\* C20 as stated: of two interleaved load_extension calls for one name at most
\* one registers the extension and then the other ends with
\* ExtensionAlreadyLoaded; the extension a call has registered stays in the
\* extension table and in sys.modules with its cogs, whatever the other call
\* rolls back; and no rollback raises KeyError for an entry of sys.modules that
\* is already gone.
C20_InterleavedLoads ==
    /\ Cardinality({c \in DirectCalls : result[c] = "ok"}) <= 1
    /\ \A c \in DirectCalls, d \in DirectCalls :
        c # d /\ result[c] = "ok" /\ Ended(d) => result[d] = "ExtensionAlreadyLoaded"
    /\ \A c \in DirectCalls :
        result[c] = "ok" =>
            /\ extensions[DirectKey] = Lib(c, attempt[c])
            /\ sysModules[DirectKey] = Lib(c, attempt[c])
            /\ \A i \in 1..strapon[c].cogs :
                \E g \in CogsOf(DirectKey) : g.idx = i /\ g.call = c
    /\ \A c \in DirectCalls : result[c] # "KeyError"

====
